---- MODULE Spec2Model ----
(***************************************************************************)
(* Model of InterruptionHandler (intelligent_interruption_handler.py):     *)
(* the agent-state register and the should_interrupt classifier, and of    *)
(* IntelligentAgent, the asyncio driver built on it.                       *)
(*                                                                         *)
(* A Python str is modelled as a sequence of one-character strings, so     *)
(* that lower(), strip(), split() and the substring test `in` are computed *)
(* character by character, as the interpreter computes them.               *)
(***************************************************************************)
EXTENDS Integers, Sequences, FiniteSets, TLC

\* Longest utterance that is enumerated exhaustively over Alphabet.
MaxLen == 4

\* --------------------------------------------------------------------------
\* Python string primitives used by should_interrupt
\* --------------------------------------------------------------------------

\* Characters str.strip() and str.split() treat as whitespace.
Whitespace == {" ", "\t", "\n"}

UpperChars ==
  <<"A", "B", "C", "D", "E", "F", "G", "H", "I", "J", "K", "L", "M",
    "N", "O", "P", "Q", "R", "S", "T", "U", "V", "W", "X", "Y", "Z">>

LowerChars ==
  <<"a", "b", "c", "d", "e", "f", "g", "h", "i", "j", "k", "l", "m",
    "n", "o", "p", "q", "r", "s", "t", "u", "v", "w", "x", "y", "z">>

lower_char(c) ==
  IF \E i \in DOMAIN UpperChars : UpperChars[i] = c
  THEN LowerChars[CHOOSE i \in DOMAIN UpperChars : UpperChars[i] = c]
  ELSE c

upper_char(c) ==
  IF \E i \in DOMAIN LowerChars : LowerChars[i] = c
  THEN UpperChars[CHOOSE i \in DOMAIN LowerChars : LowerChars[i] = c]
  ELSE c

\* str.lower()
lower(s) == [i \in 1..Len(s) |-> lower_char(s[i])]

\* str.upper() (used only to build case variants of an utterance)
upper(s) == [i \in 1..Len(s) |-> upper_char(s[i])]

RECURSIVE lstrip(_)
lstrip(s) ==
  IF s = <<>> THEN s
  ELSE IF Head(s) \in Whitespace THEN lstrip(Tail(s)) ELSE s

RECURSIVE rstrip(_)
rstrip(s) ==
  IF s = <<>> THEN s
  ELSE IF s[Len(s)] \in Whitespace THEN rstrip(SubSeq(s, 1, Len(s) - 1)) ELSE s

\* str.strip()
strip(s) == rstrip(lstrip(s))

\* Length of the longest whitespace-free prefix of s.
RECURSIVE token_len(_)
token_len(s) ==
  IF s = <<>> \/ Head(s) \in Whitespace THEN 0 ELSE 1 + token_len(Tail(s))

\* str.split(): the maximal whitespace-free runs of s, in order.
RECURSIVE split(_)
split(s) ==
  LET t == lstrip(s) IN
  IF t = <<>> THEN <<>>
  ELSE LET n == token_len(t) IN
       <<SubSeq(t, 1, n)>> \o split(SubSeq(t, n + 1, Len(t)))

\* Python's `needle in hay` on strings.
str_contains(hay, needle) ==
  \E i \in 1..(Len(hay) - Len(needle) + 1) :
    SubSeq(hay, i, i + Len(needle) - 1) = needle

\* --------------------------------------------------------------------------
\* AgentState and the word lists of __init__
\* --------------------------------------------------------------------------

SPEAKING == "speaking"
SILENT == "silent"
AgentState == {SPEAKING, SILENT}

DefaultIgnoreWords ==
  << <<"y", "e", "a", "h">>, <<"o", "k">>, <<"o", "k", "a", "y">>,
     <<"h", "m", "m">>, <<"u", "h", "-", "h", "u", "h">>, <<"m", "h", "m">>,
     <<"r", "i", "g", "h", "t">>, <<"a", "h", "a">>, <<"y", "e", "p">>,
     <<"s", "u", "r", "e">>, <<"g", "o", "t", "c", "h", "a">> >>

InterruptWords ==
  { <<"w", "a", "i", "t">>, <<"s", "t", "o", "p">>, <<"n", "o">>,
    <<"h", "o", "l", "d">>, <<"p", "a", "u", "s", "e">>,
    <<"h", "o", "l", "d", " ", "o", "n">> }

\* The set() of a Python list.
list_to_set(l) == {l[i] : i \in DOMAIN l}

\* The constructor argument: omitted (None) or a list of strings.
NoneArg == [given |-> FALSE, words |-> <<>>]
ListArg(l) == [given |-> TRUE, words |-> l]

\* Python truthiness of the ignore_words argument: None and [] are falsy.
truthy(arg) == arg.given /\ arg.words # <<>>

\* InterruptionHandler.__init__(ignore_words)
InterruptionHandler(ignore_words) ==
  [ ignore_words |->
      list_to_set(IF truthy(ignore_words) THEN ignore_words.words
                  ELSE DefaultIgnoreWords),
    interrupt_words |-> InterruptWords,
    agent_state |-> SILENT,
    pending_interruptions |-> <<>> ]

\* Variant of set_state that only ever raises the register to SPEAKING.
set_state_only_speaking(self, state) ==
  IF state = SPEAKING THEN [self EXCEPT !.agent_state = state] ELSE self

\* InterruptionHandler.set_state(state)
set_state(self, state) == [self EXCEPT !.agent_state = state]

\* InterruptionHandler.is_speaking()
is_speaking(self) == self.agent_state = SPEAKING

\* Variant of should_interrupt that consults the ignore set before the
\* command set.
should_interrupt_ignore_first(self, user_input) ==
  IF user_input = <<>> THEN FALSE
  ELSE
    LET normalized_input == strip(lower(user_input))
        words == split(normalized_input)
        non_ignore_words ==
          SelectSeq(words, LAMBDA w : w \notin self.ignore_words)
    IN  IF ~is_speaking(self) THEN TRUE
        ELSE IF non_ignore_words = <<>> THEN FALSE
        ELSE TRUE

\* Variant of should_interrupt that tokenizes the raw input instead of the
\* normalized input.
should_interrupt_raw_words(self, user_input) ==
  IF user_input = <<>> THEN FALSE
  ELSE
    LET normalized_input == strip(lower(user_input))
        words == split(user_input)
        non_ignore_words ==
          SelectSeq(words, LAMBDA w : w \notin self.ignore_words)
    IN  IF ~is_speaking(self) THEN TRUE
        ELSE IF \E word \in self.interrupt_words :
                  str_contains(normalized_input, word) THEN TRUE
        ELSE IF non_ignore_words = <<>> THEN FALSE
        ELSE TRUE

\* Variant of should_interrupt that applies the SPEAKING rules in every mode.
should_interrupt_mode_blind(self, user_input) ==
  IF user_input = <<>> THEN FALSE
  ELSE
    LET normalized_input == strip(lower(user_input))
        words == split(normalized_input)
        non_ignore_words ==
          SelectSeq(words, LAMBDA w : w \notin self.ignore_words)
    IN  IF \E word \in self.interrupt_words :
             str_contains(normalized_input, word) THEN TRUE
        ELSE IF non_ignore_words = <<>> THEN FALSE
        ELSE TRUE

\* Variant of should_interrupt that ignores an utterance as soon as one of
\* its tokens is an ignore word.
should_interrupt_any_filler(self, user_input) ==
  IF user_input = <<>> THEN FALSE
  ELSE
    LET normalized_input == strip(lower(user_input))
        words == split(normalized_input)
        ignore_hits ==
          SelectSeq(words, LAMBDA w : w \in self.ignore_words)
    IN  IF ~is_speaking(self) THEN TRUE
        ELSE IF \E word \in self.interrupt_words :
                  str_contains(normalized_input, word) THEN TRUE
        ELSE IF ignore_hits # <<>> \/ words = <<>> THEN FALSE
        ELSE TRUE

\* Variant of should_interrupt that trims but does not lowercase the input.
should_interrupt_case_sensitive(self, user_input) ==
  IF user_input = <<>> THEN FALSE
  ELSE
    LET normalized_input == strip(user_input)
        words == split(normalized_input)
        non_ignore_words ==
          SelectSeq(words, LAMBDA w : w \notin self.ignore_words)
    IN  IF ~is_speaking(self) THEN TRUE
        ELSE IF \E word \in self.interrupt_words :
                  str_contains(normalized_input, word) THEN TRUE
        ELSE IF non_ignore_words = <<>> THEN FALSE
        ELSE TRUE

\* InterruptionHandler.should_interrupt(user_input): the returned boolean.
should_interrupt(self, user_input) ==
  IF user_input = <<>> THEN FALSE
  ELSE
    LET normalized_input == strip(lower(user_input))
        words == split(normalized_input)
        non_ignore_words ==
          SelectSeq(words, LAMBDA w : w \notin self.ignore_words)
    IN  IF ~is_speaking(self) THEN TRUE
        ELSE IF \E word \in self.interrupt_words :
                  str_contains(normalized_input, word) THEN TRUE
        ELSE IF non_ignore_words = <<>> THEN FALSE
        ELSE TRUE

\* --------------------------------------------------------------------------
\* Inputs
\* --------------------------------------------------------------------------

\* Letters of the command word "no" and the filler "ok", one upper-case
\* letter and a blank: enough to spell commands, fillers, substantive
\* tokens, embedded commands, mixed case and surrounding whitespace.
Alphabet == {"n", "o", "k", "O", " "}

BoundedStrings == UNION {[1..n -> Alphabet] : n \in 0..MaxLen}

yeah == <<"y", "e", "a", "h">>
wait == <<"w", "a", "i", "t">>

\* "Okay... yeah... uh-huh", the utterance of scenario 1 in the docstring of
\* test_ignore_filler_while_speaking, and the same words without punctuation.
PunctuatedFillers ==
  <<"O", "k", "a", "y", ".", ".", ".", " ", "y", "e", "a", "h", ".", ".", ".",
    " ", "u", "h", "-", "h", "u", "h">>

PlainFillers ==
  <<"O", "k", "a", "y", " ", "y", "e", "a", "h", " ", "u", "h", "-", "h", "u",
    "h">>

\* Utterances of the repository's tests.
TestUtterances ==
  { yeah, wait,
    <<"y", "e", "a", "h", " ", "o", "k", "a", "y">>,
    <<"y", "e", "a", "h", " ", "o", "k", "a", "y", " ", "b", "u", "t", " ",
      "w", "a", "i", "t">>,
    <<"h", "o", "l", "d", " ", "o", "n", " ", "a", " ", "s", "e", "c", "o",
      "n", "d">>,
    <<"S", "T", "O", "P">>,
    <<"Y", "e", "a", "h">>,
    <<"c", "u", "s", "t", "o", "m">>,
    <<"f", "i", "l", "l", "e", "r", " ", "w", "o", "r", "d">>,
    <<"t", "h", "a", "t", "'", "s", " ", "r", "e", "a", "l", "l", "y", " ",
      "i", "n", "t", "e", "r", "e", "s", "t", "i", "n", "g">>,
    <<" ", " ", " ">>,
    PunctuatedFillers, PlainFillers }

Utterances == BoundedStrings \cup TestUtterances

\* Constructor arguments: omitted, the empty list, the list of
\* test_custom_ignore_words, and lists with an upper-case word, a word with
\* surrounding blanks, and a command word next to a duplicated word.
CtorArgs ==
  { NoneArg,
    ListArg(<<>>),
    ListArg(<< <<"c", "u", "s", "t", "o", "m">>,
               <<"f", "i", "l", "l", "e", "r">>, <<"w", "o", "r", "d">> >>),
    ListArg(<< <<"C", "u", "s", "t", "o", "m">>,
               <<" ", "f", "i", "l", "l", "e", "r", " ">> >>),
    ListArg(<< <<"n", "o">>, <<"k">>, <<"k">> >>),
    ListArg(<< <<"K">>, <<" ", "k">> >>) }

\* The empty string or a string made only of whitespace.
IsBlank(s) == \A i \in DOMAIN s : s[i] \in Whitespace

\* Lowercased, trimmed text and its whitespace-delimited tokens.
Normalized(s) == strip(lower(s))
Tokens(s) == list_to_set(split(Normalized(s)))

\* Some command-set string occurs in the lowercased, trimmed text.
HasCommand(s) == \E c \in InterruptWords : str_contains(Normalized(s), c)

\* --------------------------------------------------------------------------
\* State
\* --------------------------------------------------------------------------

\* Most _handle_user_input calls in one run of the agent.
MaxInputs == 3

\* Most audio chunks one TTS stream yields.
MaxChunks == 1

\* Most _handle_user_input calls that have been made and have not returned.
MaxInFlight == 3

TaskIds == 1..MaxInputs

VARIABLES
  handler,      \* the InterruptionHandler object
  ignore_arg,   \* the ignore_words argument it was constructed with
  utterance,    \* the utterance under test in this session
  user_input,   \* argument of the latest should_interrupt call
  result,       \* value returned by the latest should_interrupt call
  prev_input,   \* argument of the should_interrupt call before the latest
  op,           \* the latest operation: "init", "set_state", "should_interrupt"
  last_set,     \* argument of the latest set_state call, "none" before any
  call_arg,     \* a Python argument for should_interrupt: None or a str
  call_outcome, \* how the latest call on call_arg ended: return value or raise
  driver,       \* who calls _handle_user_input: "start" or "concurrent"
  stt,          \* transcriptions the VAD/STT streams hold for start()
  handlers,     \* the _handle_user_input calls, by task id
  plays,        \* the _play_speech tasks, by the id of the creating call
  transcription_buffer,  \* IntelligentAgent._transcription_buffer
  current_speech_task,   \* IntelligentAgent._current_speech_task, 0 for None
  ready,        \* the event loop's FIFO queue of runnable tasks
  last          \* what the latest step of the agent did

handler_vars ==
  <<handler, ignore_arg, utterance, user_input, result, prev_input, op,
    last_set>>

call_vars == <<call_arg, call_outcome>>

agent_vars ==
  <<driver, stt, handlers, plays, transcription_buffer, current_speech_task,
    ready, last>>

vars == <<handler_vars, call_vars, agent_vars>>

\* A Python value passed as user_input: None or a str.
PyNone == [is_none |-> TRUE, text |-> <<>>]
PyStr(s) == [is_none |-> FALSE, text |-> s]

\* Python's `not user_input`: None and the empty str are falsy.
py_not(arg) == arg.is_none \/ arg.text = <<>>

NoOutcome == [raised |-> FALSE, value |-> FALSE]
Returns(v) == [raised |-> FALSE, value |-> v]
Raises == [raised |-> TRUE, value |-> FALSE]

\* Variant of call_should_interrupt whose guard is `user_input == ""`.
call_should_interrupt_eq_empty(self, arg) ==
  IF ~arg.is_none /\ arg.text = <<>> THEN Returns(FALSE)
  ELSE IF arg.is_none THEN Raises
  ELSE Returns(should_interrupt(self, arg.text))

\* should_interrupt applied to any Python argument: the guard of line 76
\* returns before user_input.lower(), which raises AttributeError on None.
call_should_interrupt(self, arg) ==
  IF py_not(arg) THEN Returns(FALSE)
  ELSE IF arg.is_none THEN Raises
  ELSE Returns(should_interrupt(self, arg.text))

\* Strings consisting only of punctuation.
PunctuationUtterances ==
  { <<".", ".", ".">>, <<"?", "!">>, <<"-">>, <<".", " ", ".">> }

CallArgs == {PyNone} \cup {PyStr(s) : s \in Utterances \cup PunctuationUtterances}

\* A _handle_user_input call that has not been made, a _play_speech task
\* that has not been created.
NoHandler == [pc |-> "unborn", text |-> <<>>]
NoPlay ==
  [pc |-> "none", tts |-> "none", cancel |-> FALSE, chunks |-> 0,
   heard |-> FALSE]

\* The latest step of the agent.  For "handled" (the synchronous part of
\* _handle_user_input ran for call id): its transcription, the mode it found,
\* what should_interrupt returns for it in that mode, whether it was passed
\* to _process_user_message, and the task it cancelled (0: none).  For
\* "play_started" and "play_ended" (task id): why it ended, whether the user
\* spoke a command over it, and the call whose transcription broke its loop.
NoStep ==
  [kind |-> "none", id |-> 0, text |-> <<>>, mode |-> "none",
   verdict |-> FALSE, dispatched |-> FALSE, cancelled |-> 0,
   reason |-> "none", heard |-> FALSE, breaker |-> 0]

Step(k, i) == [NoStep EXCEPT !.kind = k, !.id = i]

\* No agent: the handler is used on its own.
AgentOff ==
  /\ driver = "none"
  /\ stt = <<>>
  /\ handlers = [i \in TaskIds |-> NoHandler]
  /\ plays = [i \in TaskIds |-> NoPlay]
  /\ transcription_buffer = <<>>
  /\ current_speech_task = 0
  /\ ready = <<>>
  /\ last = NoStep

\* No call on a Python argument is under test.
CallOff == call_arg = PyNone /\ call_outcome = NoOutcome

\* No handler session is under test.
SessionOff ==
  /\ utterance = <<>>
  /\ user_input = <<>>
  /\ result = FALSE
  /\ prev_input = <<>>
  /\ op = "init"
  /\ last_set = "none"

Init ==
  /\ ignore_arg \in CtorArgs
  /\ handler = InterruptionHandler(ignore_arg)
  /\ utterance \in Utterances
  /\ user_input = <<>>
  /\ result = FALSE
  /\ prev_input = <<>>
  /\ op = "init"
  /\ last_set = "none"
  /\ CallOff
  /\ AgentOff

\* The driver calls handler.set_state(state).
SetState ==
  \E state \in AgentState :
    /\ handler' = set_state(handler, state)
    /\ last_set' = state
    /\ op' = "set_state"
    /\ UNCHANGED <<ignore_arg, utterance, user_input, result, prev_input>>
    /\ UNCHANGED <<call_vars, agent_vars>>

\* Variant of ShouldInterrupt in which a detected interruption stays latched:
\* once a call has returned true, later calls return true as well.
ShouldInterruptLatched ==
  \E u \in {utterance, yeah, wait} :
    /\ user_input' = u
    /\ result' = (result \/ should_interrupt(handler, u))
    /\ prev_input' = user_input
    /\ op' = "should_interrupt"
    /\ UNCHANGED <<handler, ignore_arg, utterance, last_set>>
    /\ UNCHANGED <<call_vars, agent_vars>>

\* Variant of ShouldInterrupt in which the handler itself marks the agent
\* SILENT once it has decided to interrupt.
ShouldInterruptStopsSpeaking ==
  \E u \in {utterance, yeah, wait} :
    /\ user_input' = u
    /\ result' = should_interrupt(handler, u)
    /\ prev_input' = user_input
    /\ op' = "should_interrupt"
    /\ handler' = IF should_interrupt(handler, u) /\ is_speaking(handler)
                  THEN set_state(handler, SILENT) ELSE handler
    /\ UNCHANGED <<ignore_arg, utterance, last_set>>
    /\ UNCHANGED <<call_vars, agent_vars>>

\* The driver calls handler.should_interrupt(u): the utterance under test,
\* or one of the two utterances of test_full_scenario_flow.
ShouldInterrupt ==
  \E u \in {utterance, yeah, wait} :
    /\ user_input' = u
    /\ result' = should_interrupt(handler, u)
    /\ prev_input' = user_input
    /\ op' = "should_interrupt"
    /\ UNCHANGED <<handler, ignore_arg, utterance, last_set>>
    /\ UNCHANGED <<call_vars, agent_vars>>

Next == SetState \/ ShouldInterrupt

Spec == Init /\ [][Next]_vars

TypeOK ==
  /\ handler.agent_state \in AgentState
  /\ result \in BOOLEAN
  /\ op \in {"init", "set_state", "should_interrupt"}
  /\ last_set \in AgentState \cup {"none"}

\* --------------------------------------------------------------------------
\* should_interrupt on any Python argument
\* --------------------------------------------------------------------------

CallInit ==
  /\ ignore_arg \in CtorArgs
  /\ handler = InterruptionHandler(ignore_arg)
  /\ SessionOff
  /\ call_arg \in CallArgs
  /\ call_outcome = NoOutcome
  /\ AgentOff

\* handler.should_interrupt(call_arg) is called.
CallShouldInterrupt ==
  /\ call_outcome' = call_should_interrupt(handler, call_arg)
  /\ op' = "should_interrupt"
  /\ UNCHANGED <<handler, ignore_arg, utterance, user_input, result,
                 prev_input, last_set, call_arg, agent_vars>>

CallNext == SetState \/ CallShouldInterrupt

CallSpec == CallInit /\ [][CallNext]_vars

\* --------------------------------------------------------------------------
\* IntelligentAgent
\*
\* Every coroutine runs on one asyncio event loop: a task runs from one
\* await to the next without interruption, and runnable tasks are resumed
\* in the order in which they became runnable (ready).  llm.generate and the
\* TTS stream are collaborators that complete at times of their own.
\* --------------------------------------------------------------------------

\* Transcriptions the agent receives: nothing, a filler, a command.
AgentTexts == {<<>>, yeah, wait}

\* An ignore list that names the command word 'wait' next to 'yeah'.
CommandIgnoreList == ListArg(<<wait, yeah>>)

HandleTask(i) == [kind |-> "handle", id |-> i]
PlayTask(i) == [kind |-> "play", id |-> i]

\* An entry of _transcription_buffer: the transcription, and the call that
\* appended it.
Buffered(i, text) == [id |-> i, text |-> text]

Born(i) == handlers[i].pc # "unborn"
NumBorn == Cardinality({i \in TaskIds : Born(i)})

\* The _handle_user_input calls that have neither returned nor raised.
InFlight ==
  {i \in TaskIds :
     handlers[i].pc \in {"called", "llm", "llm_done", "await_play"}}

\* A _play_speech coroutine that has entered its try block and has not yet
\* reached its finally block.
InProgress(p) == p.pc \in {"wait_chunk", "woken"}

\* Variant of play_speech_finally without the finally block: the mode is
\* reset only when the loop ends by itself.
play_speech_no_finally(self, reason) ==
  IF reason \in {"exhausted", "broken"} THEN set_state(self, SILENT) ELSE self

\* The finally block of _play_speech, reached on every exit of the try block.
play_speech_finally(self, reason) == set_state(self, SILENT)

\* _should_stop_speech(): pops buffered transcriptions until one of them
\* interrupts; `by` is the call whose transcription did, 0 if none.
RECURSIVE should_stop_speech(_, _)
should_stop_speech(self, buffer) ==
  IF buffer = <<>> THEN [stop |-> FALSE, buffer |-> <<>>, by |-> 0]
  ELSE IF should_interrupt(self, Head(buffer).text)
       THEN [stop |-> TRUE, buffer |-> Tail(buffer), by |-> Head(buffer).id]
       ELSE should_stop_speech(self, Tail(buffer))

\* Variant of handle_user_input that cancels the current speech task as soon
\* as anything is heard while speaking, before classifying it.
handle_user_input_cancel_first(self, buffer, task, i, text) ==
  IF is_speaking(self)
  THEN IF ~should_interrupt(self, text)
       THEN [buffer |-> <<>>, cancel |-> task, task |-> 0,
             dispatch |-> FALSE]
       ELSE [buffer |-> Append(buffer, Buffered(i, text)), cancel |-> task,
             task |-> 0, dispatch |-> TRUE]
  ELSE [buffer |-> Append(buffer, Buffered(i, text)), cancel |-> 0,
        task |-> task, dispatch |-> TRUE]

\* The synchronous part of _handle_user_input(text), up to its return or to
\* the call of _process_user_message: the new buffer, the task to cancel
\* (0 for none), the new _current_speech_task, and whether the transcription
\* is passed on to _process_user_message.
handle_user_input(self, buffer, task, i, text) ==
  IF is_speaking(self)
  THEN IF ~should_interrupt(self, text)
       THEN [buffer |-> <<>>, cancel |-> 0, task |-> task,
             dispatch |-> FALSE]
       ELSE [buffer |-> Append(buffer, Buffered(i, text)), cancel |-> task,
             task |-> 0, dispatch |-> TRUE]
  ELSE [buffer |-> Append(buffer, Buffered(i, text)), cancel |-> 0,
        task |-> task, dispatch |-> TRUE]

\* Task.cancel() on play task i (0: no task): a finished task is left alone,
\* any other gets a CancelledError at its next resumption.
cancel_task(ps, i) ==
  IF i = 0 \/ ps[i].pc \in {"none", "done"} THEN ps
  ELSE [ps EXCEPT ![i] = [@ EXCEPT !.cancel = TRUE,
                                   !.pc = IF @ = "wait_chunk" THEN "woken"
                                          ELSE @]]

\* The tasks cancel_task makes runnable: a task waiting for the TTS stream.
woken_by_cancel(ps, i) ==
  IF i # 0 /\ ps[i].pc = "wait_chunk" THEN <<PlayTask(i)>> ELSE <<>>

\* The user says t: every playback in progress has now been spoken over,
\* with a command word if t holds one.
spoken_over(ps, t) ==
  [i \in TaskIds |->
     IF InProgress(ps[i]) /\ HasCommand(t)
     THEN [ps[i] EXCEPT !.heard = TRUE] ELSE ps[i]]

\* The _play_speech task i ends: the call awaiting it returns, or gets the
\* task's exception.
play_ended(hs, i, reason) ==
  [hs EXCEPT ![i] = [@ EXCEPT !.pc = IF reason \in {"exhausted", "broken"}
                                     THEN "done" ELSE "failed"]]

\* IntelligentAgent(vad, stt, tts, llm, ignore_words), before any input.
IntelligentAgent(ignore_words) ==
  /\ ignore_arg = ignore_words
  /\ handler = InterruptionHandler(ignore_arg)
  /\ SessionOff
  /\ CallOff
  /\ driver \in {"start", "concurrent"}
  /\ stt = <<>>
  /\ handlers = [i \in TaskIds |-> NoHandler]
  /\ plays = [i \in TaskIds |-> NoPlay]
  /\ transcription_buffer = <<>>
  /\ current_speech_task = 0
  /\ ready = <<>>
  /\ last = NoStep

\* The agent main() builds when IGNORE_WORDS is not set.
AgentInit == IntelligentAgent(NoneArg)

\* The agent main() builds when IGNORE_WORDS is 'wait,yeah'.
ConfiguredAgentInit == IntelligentAgent(CommandIgnoreList)

\* Under start(): the user speaks and the VAD/STT streams hold the
\* transcription until the loop asks for it.
VadSpeechEnded ==
  \E t \in AgentTexts :
    /\ driver = "start"
    /\ NumBorn + Len(stt) < MaxInputs
    /\ stt' = Append(stt, t)
    /\ plays' = spoken_over(plays, t)
    /\ last' = [Step("spoken", 0) EXCEPT !.text = t]
    /\ UNCHANGED <<handler_vars, call_vars, driver, handlers,
                   transcription_buffer, current_speech_task, ready>>

\* start(): the loop is back at its `async for`, no exception has ended it,
\* and it takes the next transcription into _handle_user_input.
StartLoop ==
  /\ driver = "start"
  /\ stt # <<>>
  /\ \A i \in TaskIds : handlers[i].pc \in {"unborn", "done", "dropped"}
  /\ handlers' = [handlers EXCEPT ![NumBorn + 1] =
                    [pc |-> "called", text |-> Head(stt)]]
  /\ stt' = Tail(stt)
  /\ ready' = Append(ready, HandleTask(NumBorn + 1))
  /\ last' = [Step("called", NumBorn + 1) EXCEPT !.text = Head(stt)]
  /\ UNCHANGED <<handler_vars, call_vars, driver, plays,
                 transcription_buffer, current_speech_task>>

\* A caller other than start() runs _handle_user_input(t) as a task of its
\* own, whatever the agent is doing.
CallHandleUserInput ==
  \E t \in AgentTexts :
    /\ driver = "concurrent"
    /\ NumBorn < MaxInputs
    /\ Cardinality(InFlight) < MaxInFlight
    /\ handlers' = [handlers EXCEPT ![NumBorn + 1] =
                      [pc |-> "called", text |-> t]]
    /\ ready' = Append(ready, HandleTask(NumBorn + 1))
    /\ last' = [Step("called", NumBorn + 1) EXCEPT !.text = t]
    /\ UNCHANGED <<handler_vars, call_vars, driver, stt, plays,
                   transcription_buffer, current_speech_task>>

\* _handle_user_input runs up to its return or to `await llm.generate`.
RunHandleUserInput ==
  /\ ready # <<>>
  /\ Head(ready).kind = "handle"
  /\ handlers[Head(ready).id].pc = "called"
  /\ LET i == Head(ready).id
         text == handlers[i].text
         r == handle_user_input(handler, transcription_buffer,
                                current_speech_task, i, text)
     IN  /\ handlers' = [handlers EXCEPT ![i] =
                           [pc |-> IF r.dispatch THEN "llm" ELSE "dropped",
                            text |-> <<>>]]
         /\ plays' = cancel_task(plays, r.cancel)
         /\ ready' = Tail(ready) \o woken_by_cancel(plays, r.cancel)
         /\ transcription_buffer' = r.buffer
         /\ current_speech_task' = r.task
         /\ last' = [Step("handled", i) EXCEPT
                       !.text = text,
                       !.mode = handler.agent_state,
                       !.verdict = should_interrupt(handler, text),
                       !.dispatched = r.dispatch,
                       !.cancelled = r.cancel]
  /\ UNCHANGED <<handler_vars, call_vars, driver, stt>>

\* llm.generate(message) completes.
LlmGenerateDone ==
  \E i \in TaskIds :
    /\ handlers[i].pc = "llm"
    /\ handlers' = [handlers EXCEPT ![i] = [@ EXCEPT !.pc = "llm_done"]]
    /\ ready' = Append(ready, HandleTask(i))
    /\ last' = Step("generated", i)
    /\ UNCHANGED <<handler_vars, call_vars, driver, stt, plays,
                   transcription_buffer, current_speech_task>>

\* _process_user_message resumes: it creates the _play_speech task, stores
\* it in _current_speech_task and awaits it.
RunProcessUserMessage ==
  /\ ready # <<>>
  /\ Head(ready).kind = "handle"
  /\ handlers[Head(ready).id].pc = "llm_done"
  /\ LET i == Head(ready).id
     IN  /\ handlers' = [handlers EXCEPT ![i] = [@ EXCEPT !.pc = "await_play"]]
         /\ plays' = [plays EXCEPT ![i] = [NoPlay EXCEPT !.pc = "created"]]
         /\ current_speech_task' = i
         /\ ready' = Append(Tail(ready), PlayTask(i))
         /\ last' = Step("play_created", i)
  /\ UNCHANGED <<handler_vars, call_vars, driver, stt, transcription_buffer>>

\* First step of a _play_speech task.  A task cancelled before it started
\* never enters the coroutine.  Otherwise the mode becomes SPEAKING and
\* tts.synthesize either raises or hands out the stream the loop waits on.
RunPlaySpeechStart ==
  /\ ready # <<>>
  /\ Head(ready).kind = "play"
  /\ plays[Head(ready).id].pc = "created"
  /\ ready' = Tail(ready)
  /\ LET i == Head(ready).id
     IN  IF plays[i].cancel
         THEN /\ plays' = [plays EXCEPT ![i] = [NoPlay EXCEPT !.pc = "done"]]
              /\ handlers' = play_ended(handlers, i, "never_ran")
              /\ last' = [Step("play_ended", i) EXCEPT !.reason = "never_ran"]
              /\ UNCHANGED handler
         ELSE \/ /\ handler' = set_state(handler, SPEAKING)
                 /\ plays' = [plays EXCEPT ![i] = [@ EXCEPT !.pc = "wait_chunk"]]
                 /\ last' = Step("play_started", i)
                 /\ UNCHANGED handlers
              \/ /\ handler' = play_speech_finally(
                                 set_state(handler, SPEAKING), "error")
                 /\ plays' = [plays EXCEPT ![i] = [NoPlay EXCEPT !.pc = "done"]]
                 /\ handlers' = play_ended(handlers, i, "error")
                 /\ last' = [Step("play_ended", i) EXCEPT !.reason = "error"]
  /\ UNCHANGED <<ignore_arg, utterance, user_input, result, prev_input, op,
                 last_set, call_vars, driver, stt, transcription_buffer,
                 current_speech_task>>

\* The TTS stream of a waiting playback yields a chunk or ends.
TtsStreamEvent ==
  \E i \in TaskIds, o \in {"chunk", "end"} :
    /\ plays[i].pc = "wait_chunk"
    /\ o = "chunk" => plays[i].chunks < MaxChunks
    /\ plays' = [plays EXCEPT ![i] = [@ EXCEPT !.pc = "woken", !.tts = o]]
    /\ ready' = Append(ready, PlayTask(i))
    /\ last' = Step("streamed", i)
    /\ UNCHANGED <<handler_vars, call_vars, driver, stt, handlers,
                   transcription_buffer, current_speech_task>>

\* A _play_speech task resumes inside its loop: with a CancelledError if it
\* was cancelled, else with what the stream delivered.  On a chunk it asks
\* _should_stop_speech, and either breaks or yields and waits for the next.
RunPlaySpeechResume ==
  /\ ready # <<>>
  /\ Head(ready).kind = "play"
  /\ plays[Head(ready).id].pc = "woken"
  /\ ready' = Tail(ready)
  /\ LET i == Head(ready).id
         st == should_stop_speech(handler, transcription_buffer)
         reason == IF plays[i].cancel THEN "cancelled"
                   ELSE IF plays[i].tts = "end" THEN "exhausted"
                   ELSE IF st.stop THEN "broken"
                   ELSE "none"
         polled == ~plays[i].cancel /\ plays[i].tts = "chunk"
     IN  /\ transcription_buffer' =
              IF polled THEN st.buffer ELSE transcription_buffer
         /\ IF reason = "none"
            THEN /\ plays' = [plays EXCEPT ![i] =
                                [@ EXCEPT !.pc = "wait_chunk", !.tts = "none",
                                          !.chunks = @ + 1]]
                 /\ last' = Step("chunk_played", i)
                 /\ UNCHANGED <<handler, handlers>>
            ELSE /\ plays' = [plays EXCEPT ![i] = [NoPlay EXCEPT !.pc = "done"]]
                 /\ handler' = play_speech_finally(handler, reason)
                 /\ handlers' = play_ended(handlers, i, reason)
                 /\ last' = [Step("play_ended", i) EXCEPT
                               !.reason = reason,
                               !.heard = plays[i].heard,
                               !.breaker = IF reason = "broken" THEN st.by
                                           ELSE 0]
  /\ UNCHANGED <<ignore_arg, utterance, user_input, result, prev_input, op,
                 last_set, call_vars, driver, stt, current_speech_task>>

AgentNext ==
  \/ VadSpeechEnded
  \/ StartLoop
  \/ CallHandleUserInput
  \/ RunHandleUserInput
  \/ LlmGenerateDone
  \/ RunProcessUserMessage
  \/ RunPlaySpeechStart
  \/ TtsStreamEvent
  \/ RunPlaySpeechResume

AgentSpec == AgentInit /\ [][AgentNext]_vars

ConfiguredAgentSpec == ConfiguredAgentInit /\ [][AgentNext]_vars

AgentTypeOK ==
  /\ driver \in {"start", "concurrent"}
  /\ current_speech_task \in 0..MaxInputs
  /\ \A i \in TaskIds :
       /\ handlers[i].pc \in {"unborn", "called", "llm", "llm_done",
                              "await_play", "dropped", "done", "failed"}
       /\ plays[i].pc \in {"none", "created", "wait_chunk", "woken", "done"}
       /\ plays[i].chunks \in 0..MaxChunks
  /\ Len(ready) <= 2 * MaxInputs

\* --------------------------------------------------------------------------
\* Vocabulary of the properties
\* --------------------------------------------------------------------------

\* The latest operation was a should_interrupt call, so user_input and
\* result are its argument and its return value in the current mode.
Returned == op = "should_interrupt"

Speaking == is_speaking(handler)

\* --------------------------------------------------------------------------
\* Properties
\* --------------------------------------------------------------------------

\* C1 (as claimed): in every mode should_interrupt returns false for the
\* empty string and for every whitespace-only string.
C1_BlankInputIsFalse ==
  (Returned /\ IsBlank(user_input)) => result = FALSE

\* C2: while SPEAKING, an utterance whose lowercased, trimmed text contains a
\* command-set string yields true, whatever its other tokens and whatever the
\* ignore set holds.
C2_CommandAlwaysInterrupts ==
  (Returned /\ Speaking /\ HasCommand(user_input)) => result = TRUE

\* A command word that the handler's ignore set itself lists was classified
\* while SPEAKING, and it interrupted.
C2_Witness ==
  /\ Returned /\ Speaking /\ result = TRUE
  /\ Normalized(user_input) \in InterruptWords \cap handler.ignore_words

\* C3 (as claimed): while SPEAKING, if every token of the lowercased, trimmed
\* utterance is in the ignore set, should_interrupt returns false.
C3_AllIgnoredIsFalse ==
  (Returned /\ Speaking /\ Tokens(user_input) \subseteq handler.ignore_words)
    => result = FALSE

\* C3 (amended): while SPEAKING, if every token of the lowercased, trimmed
\* utterance is in the ignore set and that text contains no command-set
\* string, should_interrupt returns false.
C3_AllIgnoredNoCommandIsFalse ==
  (/\ Returned /\ Speaking
   /\ Tokens(user_input) \subseteq handler.ignore_words
   /\ ~HasCommand(user_input))
    => result = FALSE

\* Two or more ignore words, written with upper-case letters or surrounding
\* blanks, were classified while SPEAKING and ignored.
C3_Witness ==
  /\ Returned /\ Speaking /\ result = FALSE
  /\ Len(split(Normalized(user_input))) >= 2
  /\ Tokens(user_input) \subseteq handler.ignore_words
  /\ user_input # Normalized(user_input)

\* C4: while SILENT, should_interrupt returns true for every non-empty
\* string; neither keyword set is consulted.
C4_SilentNonEmptyIsTrue ==
  (Returned /\ ~Speaking /\ user_input # <<>>) => result = TRUE

\* A pure filler word of the ignore set was classified while SILENT and
\* accepted.
C4_Witness ==
  /\ Returned /\ ~Speaking /\ result = TRUE
  /\ user_input \in handler.ignore_words

C6_IgnoreWordsNormalized ==
  (/\ Returned /\ Speaking
   /\ truthy(ignore_arg)
   /\ ~HasCommand(user_input)
   /\ \E i \in DOMAIN ignore_arg.words :
        Normalized(ignore_arg.words[i]) = Normalized(user_input))
    => /\ \A w \in handler.ignore_words : w = Normalized(w)
       /\ result = FALSE

\* C7 (as claimed): for every supplied collection L, the empty one included,
\* while SPEAKING a (lowercase, command-free) word of L yields false and a
\* default filler word that is not in L yields true.
C7_SuppliedListReplacesDefaults ==
  (Returned /\ Speaking /\ ignore_arg.given) =>
    /\ (/\ user_input \in list_to_set(ignore_arg.words)
        /\ user_input = Normalized(user_input)
        /\ ~HasCommand(user_input))
         => result = FALSE
    /\ (user_input \in
          list_to_set(DefaultIgnoreWords) \ list_to_set(ignore_arg.words))
         => result = TRUE

\* C8: should_interrupt returns the same value for utterances that differ
\* only in letter case: the value for an utterance is the value for its
\* all-lower-case and for its all-upper-case spelling.
C8_CaseInsensitive ==
  Returned =>
    \A v \in {lower(user_input), upper(user_input)} :
      should_interrupt(handler, v) = result

\* An utterance with an upper-case letter was classified while SPEAKING and
\* ignored as filler.
C8_Witness ==
  /\ Returned /\ Speaking /\ result = FALSE
  /\ user_input # lower(user_input)
  /\ ~IsBlank(user_input)

\* C9: the register is SILENT before any set_state call, and afterwards
\* is_speaking() is true exactly when the latest set_state argument was
\* SPEAKING.
C9_LastWriteWins ==
  /\ last_set = "none" => handler.agent_state = SILENT
  /\ last_set # "none" => (is_speaking(handler) <=> last_set = SPEAKING)

\* set_state(SILENT) was the latest call after the register had been
\* SPEAKING (a filler was ignored in between), and is_speaking() is false.
C9_Witness ==
  /\ op = "set_state" /\ last_set = SILENT /\ ~is_speaking(handler)
  /\ user_input = yeah /\ result = FALSE

\* C10: after any sequence of set_state and should_interrupt calls, the value
\* returned for u is the value a freshly constructed handler with the same
\* ignore list returns for u once its mode is set to the current mode.
C10_HistoryIndependent ==
  Returned =>
    result = should_interrupt(
               set_state(InterruptionHandler(ignore_arg), handler.agent_state),
               user_input)

\* 'wait' was classified (and accepted, as in every mode), and the next
\* call classified the filler 'yeah' while SPEAKING and ignored it.
C10_Witness ==
  /\ Returned /\ Speaking /\ result = FALSE
  /\ user_input = yeah /\ prev_input = wait

C12_Total ==
  Returned =>
    /\ ~call_outcome.raised
    /\ call_outcome.value \in BOOLEAN
    /\ call_arg.is_none => call_outcome.value = FALSE

\* should_interrupt(None) was called while SPEAKING and returned.
C12_Witness ==
  /\ Returned /\ call_arg.is_none /\ Speaking
  /\ call_outcome = Returns(FALSE)

\* The synchronous part of _handle_user_input has just run for a
\* transcription.
Handled == last.kind = "handled"

\* A _play_speech task has just ended, its coroutine having run.
PlayEnded == last.kind = "play_ended" /\ last.reason # "never_ran"

\* Every token of the transcription just handled is in the ignore set.
OnlyIgnoreWords == Tokens(last.text) \subseteq handler.ignore_words

\* C13 (as claimed): a transcription for which should_interrupt is false in
\* the mode current when _handle_user_input receives it is not passed to
\* _process_user_message.
C13_RejectedIsDropped ==
  (Handled /\ ~last.verdict) => ~last.dispatched

\* C14: a _play_speech execution has the mode at SPEAKING when it starts
\* waiting for its first chunk, and the mode is SILENT at the moment it ends,
\* whether the stream was exhausted, the loop was broken, the task was
\* cancelled or synthesis raised.
C14_PlaySpeechBracketsMode ==
  /\ last.kind = "play_started" =>
       /\ handler.agent_state = SPEAKING
       /\ plays[last.id].chunks = 0
  /\ PlayEnded =>
       /\ last.reason \in {"exhausted", "broken", "cancelled", "error"}
       /\ handler.agent_state = SILENT

\* A playback that had started was cancelled, and at the moment it ended the
\* mode is SILENT.
C14_Witness ==
  /\ PlayEnded /\ last.reason = "cancelled"
  /\ handler.agent_state = SILENT
  /\ handlers[last.id].pc = "failed"

\* C15 (as claimed): when _handle_user_input has received, while SPEAKING, a
\* transcription for which should_interrupt is true, _current_speech_task is
\* cleared, the transcription is passed on, and every playback in progress
\* has been cancelled.
C15_InterruptCancelsPlayback ==
  (Handled /\ last.mode = SPEAKING /\ last.verdict) =>
    /\ current_speech_task = 0
    /\ last.dispatched
    /\ \A i \in TaskIds : InProgress(plays[i]) => plays[i].cancel

\* C16 (as claimed): a playback whose loop is broken by _should_stop_speech
\* is never broken by the transcription that triggered its own response.
C16_OwnTriggerNeverBreaks ==
  (PlayEnded /\ last.reason = "broken") => last.breaker # last.id

\* C17 (as claimed): under start(), a playback over which the user uttered a
\* command word does not run until its TTS stream is exhausted.
C17_CommandStopsPlaybackUnderStart ==
  (driver = "start" /\ PlayEnded /\ last.heard) => last.reason # "exhausted"

\* C18 (as claimed): while a _play_speech task is in progress the mode is
\* SPEAKING, and no two playbacks are in progress at the same time.
C18_OnePlaybackAndSpeaking ==
  \A i \in TaskIds :
    InProgress(plays[i]) =>
      /\ is_speaking(handler)
      /\ \A j \in TaskIds : InProgress(plays[j]) => j = i

\* C19 (as claimed): a transcription made only of ignore words and received
\* while SPEAKING cancels no task, is not passed on and leaves the mode at
\* SPEAKING.
C19_IgnoredNeverStops ==
  (Handled /\ last.mode = SPEAKING /\ OnlyIgnoreWords) =>
    /\ last.cancelled = 0
    /\ ~last.dispatched
    /\ handler.agent_state = SPEAKING

\* C19 (amended): a transcription made only of ignore words, holding no
\* command-set string and received while SPEAKING cancels no task, is not
\* passed on, leaves _current_speech_task and the mode as they were and
\* leaves nothing in the buffer; and no dropped transcription is ever in the
\* buffer or breaks a playback loop.
C19_IgnoredNoCommandNeverStops ==
  /\ (Handled /\ last.mode = SPEAKING /\ OnlyIgnoreWords
        /\ ~HasCommand(last.text)) =>
       /\ last.cancelled = 0
       /\ ~last.dispatched
       /\ handlers[last.id].pc = "dropped"
       /\ handler.agent_state = SPEAKING
       /\ transcription_buffer = <<>>
       /\ \A i \in TaskIds : plays[i].cancel => current_speech_task # i
  /\ \A k \in DOMAIN transcription_buffer :
       handlers[transcription_buffer[k].id].pc # "dropped"
  /\ (PlayEnded /\ last.reason = "broken") =>
       handlers[last.breaker].pc # "dropped"

\* 'yeah' was received while a playback that is the current speech task was
\* in progress, and was dropped.
C19_Witness ==
  /\ Handled /\ last.mode = SPEAKING /\ last.text = yeah
  /\ ~last.dispatched
  /\ current_speech_task # 0
  /\ InProgress(plays[current_speech_task])
  /\ ~plays[current_speech_task].cancel

\* C20 (as claimed): while SPEAKING, with the default ignore list, the
\* utterance "Okay... yeah... uh-huh" does not interrupt, just like the same
\* words without punctuation.
C20_PunctuatedFillersIgnored ==
  (/\ Returned /\ Speaking
   /\ ~ignore_arg.given
   /\ user_input \in {PunctuatedFillers, PlainFillers})
    => result = FALSE

====
